---- MODULE Spec2Model ----
(***************************************************************************)
(* The in-memory inventory model of packing-list: a Container holding a    *)
(* set of Items, each Item holding a set of Boxes (src/unnamed/part_000,   *)
(* lines 1-255, with the validators of src/lib/utils.js).                  *)
(*                                                                         *)
(* Objects live in two arenas (items, boxes); a reference is the index of  *)
(* the object in its arena, so identity is the index and never the field   *)
(* values.  A JavaScript Set is a duplicate-free sequence in insertion     *)
(* order.  Only objects a caller can hold are in the arenas: an object     *)
(* whose constructor threw is not.                                         *)
(*                                                                         *)
(* The second part models the HTTP side: Auth (src/lib/auth.js), the two   *)
(* ApiResponse classes (src/lib/api-response.js, and the logging one of    *)
(* src/unnamed/part_000, lines 257-432) and the data endpoint              *)
(* (src/api/data.js).  It has its own specification, SpecApi.              *)
(***************************************************************************)
EXTENDS Integers, Sequences, FiniteSets, TLC

VARIABLES items, boxes, container, itemList, call

\* The HTTP side: the request being served and the callbacks its ApiResponse was
\* given, the position of send(), what Auth.isVerified returned, the response so
\* far, the logging class's #status_code, the state of the log write, the handlers
\* invoked so far, and the user_cookies table.
VARIABLES req, cb, pc, authResult, res, status_code, log, invoked, table

invVars == <<items, boxes, container, itemList, call>>

apiVars == <<req, cb, pc, authResult, res, status_code, log, invoked, table>>

vars == <<items, boxes, container, itemList, call,
          req, cb, pc, authResult, res, status_code, log, invoked, table>>

(***************************************************************************)
(* Bounds of the model.                                                    *)
(***************************************************************************)
MaxItems == 2
MaxBoxes == 2
MaxRecords == 2

(***************************************************************************)
(* JavaScript values.  Every value has the same record shape:              *)
(*   t  the type ("undefined", "number", "string", "array", "object",      *)
(*      "Item", "Box"),                                                    *)
(*   n  the integer part of a number, or the arena index of a reference,   *)
(*   h  TRUE for a number with fractional part one half,                   *)
(*   s  the characters of a string,                                        *)
(*   a  the elements of an array, or the property slots of a raw           *)
(*      descriptor object <<collection, item_name, item_id, boxes>>.       *)
(***************************************************************************)
Undef == [t |-> "undefined", n |-> 0, h |-> FALSE, s |-> <<>>, a |-> <<>>]

Num(k) == [t |-> "number", n |-> k, h |-> FALSE, s |-> <<>>, a |-> <<>>]

Half(k) == [t |-> "number", n |-> k, h |-> TRUE, s |-> <<>>, a |-> <<>>]

Str(cs) == [t |-> "string", n |-> 0, h |-> FALSE, s |-> cs, a |-> <<>>]

Arr(es) == [t |-> "array", n |-> 0, h |-> FALSE, s |-> <<>>, a |-> es]

Obj(c, nm, id, bx) == [t |-> "object", n |-> 0, h |-> FALSE, s |-> <<>>, a |-> <<c, nm, id, bx>>]

ItemRef(i) == [t |-> "Item", n |-> i, h |-> FALSE, s |-> <<>>, a |-> <<>>]

BoxRef(b) == [t |-> "Box", n |-> b, h |-> FALSE, s |-> <<>>, a |-> <<>>]

\* String.prototype.trim on a sequence of characters: strips the blanks at both ends.
RECURSIVE TrimLeft(_)
TrimLeft(cs) == IF cs # <<>> /\ Head(cs) = " " THEN TrimLeft(Tail(cs)) ELSE cs

RECURSIVE TrimRight(_)
TrimRight(cs) ==
  IF cs # <<>> /\ cs[Len(cs)] = " " THEN TrimRight(SubSeq(cs, 1, Len(cs) - 1)) ELSE cs

Trim(cs) == TrimRight(TrimLeft(cs))

\* A variant of toLowerCase that leaves the letters as they are.
toLowerCase_Identity(cs) == cs

\* The lower-case letter of a character.
LowerOf(ch) ==
  CASE ch = "O" -> "o" [] ch = "B" -> "b" [] ch = "J" -> "j"
    [] ch = "S" -> "s" [] ch = "N" -> "n" [] ch = "T" -> "t"
    [] ch = "A" -> "a" [] ch = "L" -> "l" [] ch = "E" -> "e"
    [] ch = "X" -> "x" [] OTHER -> ch

\* String.prototype.toLowerCase, character by character.
toLowerCase(cs) == [k \in 1..Len(cs) |-> LowerOf(cs[k])]

\* utils.isNonEmptyString: e && typeof e === 'string' && e.trim().length > 0
isNonEmptyString(e) == e.t = "string" /\ Len(e.s) > 0 /\ Len(Trim(e.s)) > 0

\* A variant of isPositiveInt that lets zero through (>= for >).
isPositiveInt_ZeroOk(e) == e.t = "number" /\ ~e.h /\ e.n >= 0

\* utils.isPositiveInt: e && Number.isInteger(e) && e > 0
isPositiveInt(e) == e.t = "number" /\ ~e.h /\ e.n > 0

\* el[k] for k = 0, 1 (here idx = k + 1): an array element, a character of a string,
\* undefined on a number or past the end.  On undefined itself the read throws.
Index(el, idx) ==
  CASE el.t = "array" -> IF idx <= Len(el.a) THEN el.a[idx] ELSE Undef
    [] el.t = "string" -> IF idx <= Len(el.s) THEN Str(<<el.s[idx]>>) ELSE Undef
    [] OTHER -> Undef

(***************************************************************************)
(* class Box                                                               *)
(***************************************************************************)
\* A variant of the Box constructor that binds every Box to the first Item.
BoxCtor_FirstParent(qty, description, parentItem) ==
  IF ~isPositiveInt(qty)
    THEN [err |-> "box.qty", box |-> <<>>]
  ELSE IF ~isNonEmptyString(description)
    THEN [err |-> "box.description", box |-> <<>>]
  ELSE IF parentItem.t # "Item"
    THEN [err |-> "box.parentItem", box |-> <<>>]
  ELSE [err |-> "",
        box |-> <<[qty |-> qty, description |-> description, parentItem |-> 1]>>]

\* Box.constructor: the qty setter, the description setter, then #setParentItem.
\* The first check that fails throws; err names the message of the Error.
BoxCtor(qty, description, parentItem) ==
  IF ~isPositiveInt(qty)
    THEN [err |-> "box.qty", box |-> <<>>]
  ELSE IF ~isNonEmptyString(description)
    THEN [err |-> "box.description", box |-> <<>>]
  ELSE IF parentItem.t # "Item"
    THEN [err |-> "box.parentItem", box |-> <<>>]
  ELSE [err |-> "",
        box |-> <<[qty |-> qty, description |-> description, parentItem |-> parentItem.n]>>]

(***************************************************************************)
(* class Item                                                              *)
(***************************************************************************)
\* Item.addBoxes's forEach from descriptor k on, for Item i whose #boxes is set, over
\* the box arena bs: each descriptor el constructs a Box from el[0], el[1] and adds it
\* to the set.  A throw ends the loop and keeps what the earlier iterations did.
RECURSIVE AddBoxesLoop(_, _, _, _, _)
AddBoxesLoop(bs, set, i, e, k) ==
  IF k > Len(e) THEN [err |-> "", bs |-> bs, set |-> set]
  ELSE IF e[k].t = "undefined" THEN [err |-> "TypeError", bs |-> bs, set |-> set]
  ELSE LET r == BoxCtor(Index(e[k], 1), Index(e[k], 2), ItemRef(i))
       IN IF r.err # "" THEN [err |-> r.err, bs |-> bs, set |-> set]
          ELSE AddBoxesLoop(bs \o r.box, Append(set, Len(bs) + 1), i, e, k + 1)

\* Item.addBoxes(...e): the rest parameter is always an array; it must not be empty.
AddBoxesRun(bs, set, i, e) ==
  IF Len(e) > 0 THEN AddBoxesLoop(bs, set, i, e, 1)
  ELSE [err |-> "boxes", bs |-> bs, set |-> set]

\* Item.constructor(collection, item_name, item_id, ...boxes) for the Item that will
\* have index i: the three setters in order, then addBoxes.  item is the constructed
\* Item, or empty when the constructor threw.
ItemCtor(bs, i, collection, item_name, item_id, bxs) ==
  IF ~isNonEmptyString(collection) THEN [err |-> "collection", bs |-> bs, item |-> <<>>]
  ELSE IF ~isNonEmptyString(item_name) THEN [err |-> "item_name", bs |-> bs, item |-> <<>>]
  ELSE IF ~isPositiveInt(item_id) THEN [err |-> "item_id", bs |-> bs, item |-> <<>>]
  ELSE LET r == AddBoxesRun(bs, <<>>, i, bxs)
       IN IF r.err # "" THEN [err |-> r.err, bs |-> bs, item |-> <<>>]
          ELSE [err |-> "", bs |-> r.bs,
                item |-> <<[collection |-> Str(Trim(collection.s)),
                            item_name |-> Str(Trim(item_name.s)),
                            item_id |-> item_id,
                            boxes |-> r.set]>>]

\* A variant of Set add that appends without looking for the element.
SetAdd_Append(set, x) == Append(set, x)

\* Set.prototype.has / add / delete on a Set kept as a sequence in insertion order.
SetHas(set, x) == \E k \in 1..Len(set) : set[k] = x

\* Set.prototype.add
SetAdd(set, x) == IF SetHas(set, x) THEN set ELSE Append(set, x)

\* Set.prototype.delete
SetDelete(set, x) == SelectSeq(set, LAMBDA y : y # x)

\* Variants of removeBox: the minimum-size check off by one either way, and the
\* membership check left out.
RemoveBoxRun_MinZero(its, i, e) ==
  IF e.t = "Box" /\ SetHas(its[i].boxes, e.n)
    THEN IF Len(its[i].boxes) < 1
           THEN [err |-> "item must have at least one box", set |-> its[i].boxes]
           ELSE [err |-> "", set |-> SetDelete(its[i].boxes, e.n)]
    ELSE [err |-> "item.removeBox", set |-> its[i].boxes]

RemoveBoxRun_MinTwo(its, i, e) ==
  IF e.t = "Box" /\ SetHas(its[i].boxes, e.n)
    THEN IF Len(its[i].boxes) < 3
           THEN [err |-> "item must have at least one box", set |-> its[i].boxes]
           ELSE [err |-> "", set |-> SetDelete(its[i].boxes, e.n)]
    ELSE [err |-> "item.removeBox", set |-> its[i].boxes]

RemoveBoxRun_NoHas(its, i, e) ==
  IF e.t = "Box"
    THEN IF Len(its[i].boxes) < 2
           THEN [err |-> "item must have at least one box", set |-> its[i].boxes]
           ELSE [err |-> "", set |-> SetDelete(its[i].boxes, e.n)]
    ELSE [err |-> "item.removeBox", set |-> its[i].boxes]

\* Item.removeBox(e) on Item i: err and the #boxes set after the call.
RemoveBoxRun(its, i, e) ==
  IF e.t = "Box" /\ SetHas(its[i].boxes, e.n)
    THEN IF Len(its[i].boxes) < 2
           THEN [err |-> "item must have at least one box", set |-> its[i].boxes]
           ELSE [err |-> "", set |-> SetDelete(its[i].boxes, e.n)]
    ELSE [err |-> "item.removeBox", set |-> its[i].boxes]

\* Item.#getDataAsOBJ
ItemDataAsOBJ(its, bs, i) ==
  [collection |-> its[i].collection, item_name |-> its[i].item_name,
   item_id |-> its[i].item_id,
   boxes |-> [k \in 1..Len(its[i].boxes) |-> BoxRef(its[i].boxes[k])]]

\* A variant of the json view that lists the boxes last to first.
ItemDataAsJson_Reversed(its, bs, i) ==
  [collection |-> its[i].collection, item_name |-> its[i].item_name,
   item_id |-> its[i].item_id,
   boxes |-> [k \in 1..Len(its[i].boxes) |->
                [qty |-> bs[its[i].boxes[Len(its[i].boxes) + 1 - k]].qty,
                 description |-> bs[its[i].boxes[Len(its[i].boxes) + 1 - k]].description]]]

\* Item.#getDataAsJson
ItemDataAsJson(its, bs, i) ==
  [collection |-> its[i].collection, item_name |-> its[i].item_name,
   item_id |-> its[i].item_id,
   boxes |-> [k \in 1..Len(its[i].boxes) |->
                [qty |-> bs[its[i].boxes[k]].qty,
                 description |-> bs[its[i].boxes[k]].description]]]

\* A variant of the table view whose rows all carry the first box's qty.
ItemDataAsTable_FirstQty(its, bs, i) ==
  [k \in 1..Len(its[i].boxes) |->
     [collection |-> its[i].collection, item_name |-> its[i].item_name,
      item_id |-> its[i].item_id,
      box_qty |-> bs[its[i].boxes[1]].qty,
      box_description |-> bs[its[i].boxes[k]].description]]

\* Item.#getDataAsTable
ItemDataAsTable(its, bs, i) ==
  [k \in 1..Len(its[i].boxes) |->
     [collection |-> its[i].collection, item_name |-> its[i].item_name,
      item_id |-> its[i].item_id,
      box_qty |-> bs[its[i].boxes[k]].qty,
      box_description |-> bs[its[i].boxes[k]].description]]

\* The values a call returns: k names the shape of v.
Void == [k |-> "undefined", v |-> <<>>]

Null == [k |-> "null", v |-> <<>>]

\* Item.getItemData(e = "obj"): err and the returned value.
getItemData(its, bs, i, e) ==
  LET f == IF e.t = "undefined" THEN Str(<<"o", "b", "j">>) ELSE e
  IN IF ~isNonEmptyString(f) THEN [err |-> "item.getItemData", ret |-> Void]
     ELSE LET lc == toLowerCase(f.s)
          IN [err |-> "",
              ret |-> IF lc = <<"o", "b", "j">>
                        THEN [k |-> "obj", v |-> ItemDataAsOBJ(its, bs, i)]
                      ELSE IF lc = <<"j", "s", "o", "n">>
                        THEN [k |-> "json", v |-> ItemDataAsJson(its, bs, i)]
                      ELSE IF lc = <<"t", "a", "b", "l", "e">>
                        THEN [k |-> "table", v |-> ItemDataAsTable(its, bs, i)]
                      ELSE Null]

(***************************************************************************)
(* class Container                                                         *)
(***************************************************************************)
\* e.collection, e.item_name, e.item_id, e.boxes (slot 1..4) of an addItems entry
\* that is not an Item: the slot of a raw descriptor object, undefined on a value
\* without that property.  (On undefined itself the read throws.)
Prop(e, slot) == IF e.t = "object" THEN e.a[slot] ELSE Undef

\* Container.addItems's forEach from entry k on: an Item is added to #itemList, any
\* other entry is handed to new Item(e.collection, e.item_name, e.item_id, e.boxes)
\* and the new Item is added.  A throw ends the loop and keeps what the earlier
\* iterations did.
RECURSIVE AddItemsLoop(_, _, _, _, _)
AddItemsLoop(its, bs, list, e, k) ==
  IF k > Len(e) THEN [err |-> "", its |-> its, bs |-> bs, list |-> list]
  ELSE IF e[k].t = "Item"
    THEN AddItemsLoop(its, bs, SetAdd(list, e[k].n), e, k + 1)
  ELSE IF e[k].t = "undefined"
    THEN [err |-> "TypeError", its |-> its, bs |-> bs, list |-> list]
  ELSE LET r == ItemCtor(bs, Len(its) + 1, Prop(e[k], 1), Prop(e[k], 2), Prop(e[k], 3),
                         <<Prop(e[k], 4)>>)
       IN IF r.err # "" THEN [err |-> r.err, its |-> its, bs |-> bs, list |-> list]
          ELSE AddItemsLoop(its \o r.item, r.bs, Append(list, Len(its) + 1), e, k + 1)

\* Container.#getDataAsObj
ContainerDataAsObj(list) == [k \in 1..Len(list) |-> ItemRef(list[k])]

\* Container.#getDataAsJson
ContainerDataAsJson(its, bs, list) ==
  [k \in 1..Len(list) |-> getItemData(its, bs, list[k], Str(<<"j", "s", "o", "n">>)).ret.v]

\* Array.prototype.flat on an array of arrays: one level.
RECURSIVE Flat(_)
Flat(ss) == IF ss = <<>> THEN <<>> ELSE Head(ss) \o Flat(Tail(ss))

\* Container.#getDataAsTable
ContainerDataAsTable(its, bs, list) ==
  Flat([k \in 1..Len(list) |->
          getItemData(its, bs, list[k], Str(<<"t", "a", "b", "l", "e">>)).ret.v])

\* Container.getContainerData(e): err and the returned value.
getContainerData(its, bs, list, e) ==
  IF ~isNonEmptyString(e) THEN [err |-> "Container.getContainerData", ret |-> Void]
  ELSE LET lc == toLowerCase(e.s)
       IN [err |-> "",
           ret |-> IF lc = <<"o", "b", "j">>
                     THEN [k |-> "obj", v |-> ContainerDataAsObj(list)]
                   ELSE IF lc = <<"j", "s", "o", "n">>
                     THEN [k |-> "json", v |-> ContainerDataAsJson(its, bs, list)]
                   ELSE IF lc = <<"t", "a", "b", "l", "e">>
                     THEN [k |-> "table", v |-> ContainerDataAsTable(its, bs, list)]
                   ELSE Null]

\* A variant of getItemsById that stops at the first match (find for filter).
getItemsById_First(its, bs, list, e) ==
  IF isPositiveInt(e)
    THEN [err |-> "",
          ret |-> [k |-> "items",
                   v |-> LET all == SelectSeq([k \in 1..Len(list) |-> ItemRef(list[k])],
                                              LAMBDA el : its[el.n].item_id = e)
                         IN IF all = <<>> THEN <<>> ELSE <<Head(all)>>]]
    ELSE [err |-> "Container.getItemsById", ret |-> Void]

\* Container.getItemsById(e): err and the returned value.
getItemsById(its, bs, list, e) ==
  IF isPositiveInt(e)
    THEN [err |-> "",
          ret |-> [k |-> "items",
                   v |-> SelectSeq(ContainerDataAsObj(list),
                                   LAMBDA el : getItemData(its, bs, el.n, Undef).ret.v.item_id = e)]]
    ELSE [err |-> "Container.getItemsById", ret |-> Void]

\* A variant of deleteItem that does not throw on an absent argument.
DeleteItemRun_Silent(list, e) == [err |-> "", list |-> SetDelete(list, e.n)]

\* Container.deleteItem(e): err and #itemList after the call.
DeleteItemRun(list, e) ==
  IF e.t = "Item" /\ SetHas(list, e.n)
    THEN [err |-> "", list |-> SetDelete(list, e.n)]
    ELSE [err |-> "Container.deleteItem", list |-> list]

(***************************************************************************)
(* The arguments the calls are tried with.                                 *)
(***************************************************************************)
GoodCollections == {Str(<<"a">>), Str(<<" ", "a", " ">>)}

GoodName == Str(<<"n">>)

GoodIds == {Num(1), Num(2)}

IdArgs == GoodIds \cup {Num(0), Half(1)}

QtyArgs == {Num(1), Num(2), Num(0), Half(1)}

DescriptionArgs == {Str(<<"d">>), Str(<<" ">>), Undef}

\* Box descriptors [qty, description]: valid ones, and ones with one invalid part.
GoodPairs == {Arr(<<Num(1), Str(<<"d">>)>>), Arr(<<Num(2), Str(<<"d">>)>>)}

BadPairs == {Arr(<<Num(0), Str(<<"d">>)>>), Arr(<<Num(1), Str(<<>>)>>), Undef}

\* The rest arguments of new Item and addBoxes: none, one descriptor, or a valid
\* descriptor followed by a second one.
BoxLists ==
  {<<>>} \cup {<<p>> : p \in GoodPairs \cup BadPairs}
         \cup {<<p, q>> : p \in GoodPairs, q \in GoodPairs \cup {Arr(<<Num(0), Str(<<"d">>)>>)}}

BoxListValid(bxs) == Len(bxs) > 0 /\ \A k \in 1..Len(bxs) : bxs[k] \in GoodPairs

\* The scalar arguments of new Item: valid ones, and ones with one invalid field.
ItemScalars ==
  {<<c, GoodName, id>> : c \in GoodCollections, id \in GoodIds}
    \cup {<<Str(<<" ">>), GoodName, Num(1)>>,
          <<Str(<<"a">>), Str(<<>>), Num(1)>>,
          <<Str(<<"a">>), GoodName, Num(0)>>}

ScalarsValid(sc) == isNonEmptyString(sc[1]) /\ isNonEmptyString(sc[2]) /\ isPositiveInt(sc[3])

\* The boxes property of a raw descriptor: a list of one or two valid pairs, a single
\* pair given flat, or an empty list.
PairLists == {Arr(<<p>>) : p \in GoodPairs}
               \cup {Arr(<<Arr(<<Num(1), Str(<<"d">>)>>), Arr(<<Num(2), Str(<<"d">>)>>)>>)}

RawBoxes == PairLists \cup GoodPairs \cup {Arr(<<>>)}

\* Raw descriptors {collection, item_name, item_id, boxes}.
RawDescriptors ==
  {Obj(c, GoodName, id, bx) : c \in GoodCollections, id \in GoodIds, bx \in GoodPairs}
    \cup {Obj(Str(<<"a">>), GoodName, Num(1), bx) : bx \in RawBoxes}
    \cup {Obj(Str(<<"a">>), GoodName, Num(0), Arr(<<Num(1), Str(<<"d">>)>>))}

\* The raw descriptors used as one of two entries.
PairedDescriptors ==
  {Obj(Str(<<" ", "a", " ">>), GoodName, id, bx) : id \in GoodIds,
      bx \in {Arr(<<Num(1), Str(<<"d">>)>>), Arr(<<Arr(<<Num(1), Str(<<"d">>)>>)>>)}}

ItemRefs == {ItemRef(i) : i \in 1..Len(items)}

BoxRefs == {BoxRef(b) : b \in 1..Len(boxes)}

\* Entry lists of addItems and of the Container constructor.
EntryLists ==
  {<<>>} \cup {<<e>> : e \in ItemRefs \cup RawDescriptors}
         \cup {<<e, f>> : e \in ItemRefs \cup PairedDescriptors, f \in ItemRefs \cup PairedDescriptors}

Formats ==
  {Str(<<"o", "b", "j">>), Str(<<"J", "s", "o", "n">>), Str(<<"T", "A", "B", "L", "E">>),
   Str(<<"x">>), Str(<<>>), Str(<<" ">>), Undef}

(***************************************************************************)
(* The state: the arenas, the one Container ("none" until its constructor  *)
(* has returned) with its #itemList, and the last call made: the method,   *)
(* the object it was called on, its arguments, the Error thrown ("" when   *)
(* it returned) and the value returned.                                    *)
(***************************************************************************)
Call(op, self, args, err, ret) ==
  [op |-> op, self |-> self, args |-> args, err |-> err, ret |-> ret]

\* The HTTP side before any request: no request, no callbacks, nothing sent.
NoRequest ==
  [entry |-> "none", impl |-> "none", method |-> "", kind |-> "",
   authorization |-> [present |-> FALSE, s |-> <<>>], cookie |-> ""]

NoCallbacks == [onSuccess |-> "none", h401 |-> "none", h500 |-> "none"]

NoAuthResult ==
  [threw |-> FALSE, verified |-> FALSE, reason |-> "", newCookie |-> "",
   query |-> "none", db |-> ""]

NoResponse == [status |-> 0, body |-> "", setCookie |-> ""]

ApiIdle ==
  /\ req = NoRequest
  /\ cb = NoCallbacks
  /\ pc = "idle"
  /\ authResult = NoAuthResult
  /\ res = NoResponse
  /\ status_code = 0
  /\ log = "none"
  /\ invoked = <<>>

Init ==
  /\ items = <<>>
  /\ boxes = <<>>
  /\ container = "none"
  /\ itemList = <<>>
  /\ call = Call("init", 0, <<>>, "", Void)
  /\ ApiIdle
  /\ table = <<>>

\* new Item(collection, item_name, item_id, ...bxs) by a caller.
NewItem(sc, bxs) ==
  /\ Len(items) < MaxItems
  /\ \E r \in {ItemCtor(boxes, Len(items) + 1, sc[1], sc[2], sc[3], bxs)} :
        /\ Len(r.bs) <= MaxBoxes
        /\ items' = items \o r.item
        /\ boxes' = r.bs
        /\ call' = Call("new Item", IF r.err = "" THEN Len(items) + 1 ELSE 0,
                        sc \o bxs, r.err, Void)
  /\ UNCHANGED <<container, itemList>>
  /\ UNCHANGED apiVars

\* items[i].addBoxes(...bxs)
AddBoxes(i, bxs) ==
  /\ \E r \in {AddBoxesRun(boxes, items[i].boxes, i, bxs)} :
        /\ Len(r.bs) <= MaxBoxes
        /\ items' = [items EXCEPT ![i].boxes = r.set]
        /\ boxes' = r.bs
        /\ call' = Call("addBoxes", i, bxs, r.err, Void)
  /\ UNCHANGED <<container, itemList>>
  /\ UNCHANGED apiVars

\* items[i].removeBox(e)
RemoveBox(i, e) ==
  /\ \E r \in {RemoveBoxRun(items, i, e)} :
        /\ items' = [items EXCEPT ![i].boxes = r.set]
        /\ call' = Call("removeBox", i, <<e>>, r.err, Void)
  /\ UNCHANGED <<boxes, container, itemList>>
  /\ UNCHANGED apiVars

\* boxes[b].remove(): this.#parentItem.removeBox(this)
BoxRemove(b) ==
  /\ \E r \in {RemoveBoxRun(items, boxes[b].parentItem, BoxRef(b))} :
        /\ items' = [items EXCEPT ![boxes[b].parentItem].boxes = r.set]
        /\ call' = Call("Box.remove", b, <<>>, r.err, Void)
  /\ UNCHANGED <<boxes, container, itemList>>
  /\ UNCHANGED apiVars

\* boxes[b].qty = v
SetQty(b, v) ==
  /\ IF isPositiveInt(v)
       THEN /\ boxes' = [boxes EXCEPT ![b].qty = v]
            /\ call' = Call("set qty", b, <<v>>, "", Void)
       ELSE /\ boxes' = boxes
            /\ call' = Call("set qty", b, <<v>>, "box.qty", Void)
  /\ UNCHANGED <<items, container, itemList>>
  /\ UNCHANGED apiVars

\* boxes[b].description = v
SetDescription(b, v) ==
  /\ IF isNonEmptyString(v)
       THEN /\ boxes' = [boxes EXCEPT ![b].description = v]
            /\ call' = Call("set description", b, <<v>>, "", Void)
       ELSE /\ boxes' = boxes
            /\ call' = Call("set description", b, <<v>>, "box.description", Void)
  /\ UNCHANGED <<items, container, itemList>>
  /\ UNCHANGED apiVars

\* new Box(qty, description, parentItem) by a caller: Box is exported.
NewBox(qty, description, parentItem) ==
  /\ Len(boxes) < MaxBoxes
  /\ \E r \in {BoxCtor(qty, description, parentItem)} :
        /\ boxes' = boxes \o r.box
        /\ call' = Call("new Box", IF r.err = "" THEN Len(boxes) + 1 ELSE 0,
                        <<qty, description, parentItem>>, r.err, Void)
  /\ UNCHANGED <<items, container, itemList>>
  /\ UNCHANGED apiVars

\* items[i].getItemData(f)
GetItemData(i, f) ==
  /\ \E r \in {getItemData(items, boxes, i, f)} :
        call' = Call("getItemData", i, <<f>>, r.err, r.ret)
  /\ UNCHANGED <<items, boxes, container, itemList>>
  /\ UNCHANGED apiVars

\* new Container(...e): the constructor is addItems(...e) on an empty #itemList.  When
\* it throws no Container is returned, and the Items it had built are unreachable.
NewContainer(e) ==
  /\ container = "none"
  /\ \E r \in {AddItemsLoop(items, boxes, <<>>, e, 1)} :
        IF r.err = ""
          THEN /\ Len(r.its) <= MaxItems
               /\ Len(r.bs) <= MaxBoxes
               /\ container' = "live"
               /\ items' = r.its
               /\ boxes' = r.bs
               /\ itemList' = r.list
               /\ call' = Call("new Container", 0, e, "", Void)
          ELSE /\ UNCHANGED <<container, items, boxes, itemList>>
               /\ call' = Call("new Container", 0, e, r.err, Void)
  /\ UNCHANGED apiVars

\* container.addItems(...e)
AddItems(e) ==
  /\ container = "live"
  /\ \E r \in {AddItemsLoop(items, boxes, itemList, e, 1)} :
        /\ Len(r.its) <= MaxItems
        /\ Len(r.bs) <= MaxBoxes
        /\ items' = r.its
        /\ boxes' = r.bs
        /\ itemList' = r.list
        /\ call' = Call("addItems", 0, e, r.err, Void)
  /\ UNCHANGED container
  /\ UNCHANGED apiVars

\* container.deleteItem(e)
DeleteItem(e) ==
  /\ container = "live"
  /\ \E r \in {DeleteItemRun(itemList, e)} :
        /\ itemList' = r.list
        /\ call' = Call("deleteItem", 0, <<e>>, r.err, Void)
  /\ UNCHANGED <<items, boxes, container>>
  /\ UNCHANGED apiVars

\* container.getItemsById(e)
GetItemsById(e) ==
  /\ container = "live"
  /\ \E r \in {getItemsById(items, boxes, itemList, e)} :
        call' = Call("getItemsById", 0, <<e>>, r.err, r.ret)
  /\ UNCHANGED <<items, boxes, container, itemList>>
  /\ UNCHANGED apiVars

\* container.getContainerData(f)
GetContainerData(f) ==
  /\ container = "live"
  /\ \E r \in {getContainerData(items, boxes, itemList, f)} :
        call' = Call("getContainerData", 0, <<f>>, r.err, r.ret)
  /\ UNCHANGED <<items, boxes, container, itemList>>
  /\ UNCHANGED apiVars

Next ==
  \/ \E sc \in ItemScalars, bxs \in BoxLists :
       /\ \/ ScalarsValid(sc) /\ BoxListValid(bxs)
          \/ sc = <<Str(<<"a">>), GoodName, Num(1)>>
          \/ bxs = <<Arr(<<Num(1), Str(<<"d">>)>>)>>
       /\ NewItem(sc, bxs)
  \/ \E i \in 1..Len(items), bxs \in BoxLists : AddBoxes(i, bxs)
  \/ \E i \in 1..Len(items), e \in BoxRefs \cup ItemRefs \cup {Undef} : RemoveBox(i, e)
  \/ \E b \in 1..Len(boxes) : BoxRemove(b)
  \/ \E b \in 1..Len(boxes), v \in QtyArgs : SetQty(b, v)
  \/ \E b \in 1..Len(boxes), v \in DescriptionArgs : SetDescription(b, v)
  \/ \E q \in {Num(1), Num(0)}, d \in {Str(<<"d">>), Str(<<>>)}, p \in ItemRefs \cup {Undef} :
       NewBox(q, d, p)
  \/ \E i \in 1..Len(items), f \in Formats : GetItemData(i, f)
  \/ \E e \in EntryLists : NewContainer(e)
  \/ \E e \in EntryLists : AddItems(e)
  \/ \E e \in ItemRefs \cup {Undef, Obj(Str(<<"a">>), GoodName, Num(1), Arr(<<>>))} : DeleteItem(e)
  \/ \E e \in IdArgs : GetItemsById(e)
  \/ \E f \in Formats : GetContainerData(f)

Spec == Init /\ [][Next]_vars

(***************************************************************************)
(* class Auth (src/lib/auth.js)                                            *)
(*                                                                         *)
(* A header is [present, s]: whether the request carries an Authorization  *)
(* header, and its characters.  A cookie, a reason and a cookie_string are *)
(* plain strings, "" standing for null or undefined.  The user_cookies     *)
(* table is a sequence of rows [cookie_string, is_verified].  db is what a *)
(* query does: "ok", "error" (dbResponse.error is set) or "throws".        *)
(***************************************************************************)
\* The value of a character in the base64 alphabet; -1 for any other character.
B64Val(ch) ==
  CASE ch = "H" -> 7 [] ch = "c" -> 28 [] ch = "g" -> 32 [] OTHER -> -1

\* The six bits of a base64 value, high bit first.
SixBits(v) ==
  <<(v \div 32) % 2, (v \div 16) % 2, (v \div 8) % 2, (v \div 4) % 2, (v \div 2) % 2, v % 2>>

\* The bits a base64 text carries: characters outside the alphabet are skipped and
\* the padding character ends the text.
RECURSIVE B64Bits(_)
B64Bits(cs) ==
  IF cs = <<>> \/ Head(cs) = "=" THEN <<>>
  ELSE IF B64Val(Head(cs)) < 0 THEN B64Bits(Tail(cs))
  ELSE SixBits(B64Val(Head(cs))) \o B64Bits(Tail(cs))

\* The whole bytes of a bit sequence; bits left over are dropped.
RECURSIVE BytesOf(_)
BytesOf(bits) ==
  IF Len(bits) < 8 THEN <<>>
  ELSE <<128 * bits[1] + 64 * bits[2] + 32 * bits[3] + 16 * bits[4]
           + 8 * bits[5] + 4 * bits[6] + 2 * bits[7] + bits[8]>>
         \o BytesOf(SubSeq(bits, 9, Len(bits)))

\* Buffer.toString of one byte.
CharOfByte(b) ==
  CASE b = 112 -> "p" [] b = 119 -> "w" [] b = 120 -> "x" [] OTHER -> "?"

\* Buffer.from(cs, 'base64').toString()
Base64Decode(cs) ==
  LET bytes == BytesOf(B64Bits(cs)) IN [k \in 1..Len(bytes) |-> CharOfByte(bytes[k])]

\* process.env.data_password
data_password == <<"p", "w">>

\* String.prototype.startsWith('Basic ')
StartsWithBasic(cs) ==
  Len(cs) >= 6 /\ SubSeq(cs, 1, 6) = <<"B", "a", "s", "i", "c", " ">>

\* req.headers?.authorization || null: an empty header counts as none.
AuthHeaderOf(r) == r.authorization.present /\ r.authorization.s # <<>>

\* Auth.#authHeaderPasswordMatch: the text after the first 'Basic ', decoded, is
\* the expected password.
authHeaderPasswordMatch(header) ==
  /\ StartsWithBasic(header)
  /\ Base64Decode(SubSeq(header, 7, Len(header))) = data_password

\* The rows of user_cookies whose cookie_string is c, in table order.
RowsOf(tbl, c) == SelectSeq(tbl, LAMBDA row : row.cookie_string = c)

\* Auth.#isCookieVerified: found and verified come from the first matching row; a
\* missing cookie, a database error and an exception all give the false object.
isCookieVerified(cookie, tbl, db) ==
  IF cookie = "" \/ db # "ok" \/ RowsOf(tbl, cookie) = <<>>
    THEN [found |-> FALSE, verified |-> FALSE]
    ELSE [found |-> TRUE, verified |-> RowsOf(tbl, cookie)[1].is_verified]

\* The cookie_string the database gives the next inserted row.
GeneratedCookie(tbl) == <<"k1", "k2", "k3", "k4">>[Len(tbl) + 1]

\* A variant of createCookie that reports success whatever the insert did.
createCookie_AlwaysSuccess(tbl, db) ==
  [success |-> TRUE, cookie |-> GeneratedCookie(tbl),
   table |-> IF db = "ok"
               THEN Append(tbl, [cookie_string |-> GeneratedCookie(tbl), is_verified |-> TRUE])
               ELSE tbl]

\* Auth.#createCookie: inserts a verified row and returns its cookie_string; a
\* database error and an exception insert nothing and give the false object.
createCookie(tbl, db) ==
  IF db = "ok"
    THEN [success |-> TRUE, cookie |-> GeneratedCookie(tbl),
          table |-> Append(tbl, [cookie_string |-> GeneratedCookie(tbl), is_verified |-> TRUE])]
    ELSE [success |-> FALSE, cookie |-> "", table |-> tbl]

\* What Auth.isVerified returns, with the query it made on user_cookies ("none",
\* "select" or "insert") and what the database did with it.
AuthReturn(verified, reason, newCookie, query, db) ==
  [threw |-> FALSE, verified |-> verified, reason |-> reason, newCookie |-> newCookie,
   query |-> query, db |-> IF query = "none" THEN "" ELSE db]

\* A variant of isVerified that falls back to the session cookie when the
\* Authorization header is rejected.
isVerified_FallsBack(r, tbl, db) ==
  IF AuthHeaderOf(r) /\ authHeaderPasswordMatch(r.authorization.s)
    THEN LET cookieResult == createCookie(tbl, db)
         IN [ret |-> AuthReturn(TRUE, "Authorization header verified",
                                IF cookieResult.success THEN cookieResult.cookie ELSE "",
                                "insert", db),
             table |-> cookieResult.table]
  ELSE IF r.cookie # ""
    THEN LET cookieCheck == isCookieVerified(r.cookie, tbl, db)
         IN [ret |-> AuthReturn(cookieCheck.found /\ cookieCheck.verified,
                                "Session cookie", "", "select", db),
             table |-> tbl]
  ELSE [ret |-> AuthReturn(FALSE, "No Authorization header or session cookie provided",
                           "", "none", db),
        table |-> tbl]

\* Auth.isVerified for request r: the header first, the cookie only without one.
isVerified(r, tbl, db) ==
  IF AuthHeaderOf(r)
    THEN IF ~StartsWithBasic(r.authorization.s)
           THEN [ret |-> AuthReturn(FALSE, "Invalid Authorization header format",
                                    "", "none", db),
                 table |-> tbl]
         ELSE IF ~authHeaderPasswordMatch(r.authorization.s)
           THEN [ret |-> AuthReturn(FALSE, "Authorization header password does not match",
                                    "", "none", db),
                 table |-> tbl]
         ELSE LET cookieResult == createCookie(tbl, db)
              IN [ret |-> AuthReturn(TRUE, "Authorization header verified",
                                     IF cookieResult.success THEN cookieResult.cookie ELSE "",
                                     "insert", db),
                  table |-> cookieResult.table]
  ELSE IF r.cookie # ""
    THEN LET cookieCheck == isCookieVerified(r.cookie, tbl, db)
         IN [ret |-> AuthReturn(cookieCheck.found /\ cookieCheck.verified,
                                IF cookieCheck.found /\ cookieCheck.verified
                                  THEN "Session cookie verified"
                                ELSE IF cookieCheck.found
                                  THEN "Session cookie not verified"
                                ELSE "Session cookie not found in database",
                                "", "select", db),
             table |-> tbl]
  ELSE [ret |-> AuthReturn(FALSE, "No Authorization header or session cookie provided",
                           "", "none", db),
        table |-> tbl]

\* new Auth(req) followed by await auth.isVerified(): the constructor throws unless
\* req is an object.
AuthRun(r, tbl, db) ==
  IF r.kind # "object"
    THEN [ret |-> [NoAuthResult EXCEPT !.threw = TRUE], table |-> tbl]
    ELSE isVerified(r, tbl, db)

(***************************************************************************)
(* Callbacks, and the handlers of the data endpoint (src/api/data.js)      *)
(*                                                                         *)
(* A callback is "none" (not supplied), "callback" (a function of the      *)
(* caller, which may return, throw or return a promise that rejects), or   *)
(* one of the endpoint's own functions.  The arguments of a call are the   *)
(* kinds of the values passed, in order.                                   *)
(***************************************************************************)
Behaviours == {"returns", "throws", "rejects"}

\* res.status(status).json(body).end()
SendResponse(rs, status, body) == [rs EXCEPT !.status = status, !.body = body]

\* data.js handleError(req, res, reason): calls res.status on its second argument,
\* which throws a TypeError when that argument is not the response object.
handleError(args, rs) ==
  IF Len(args) >= 2 /\ args[2] = "res"
    THEN [thrown |-> "no", res |-> SendResponse(rs, 401, "Unauthorized")]
    ELSE [thrown |-> "sync", res |-> rs]

\* data.js handleSuccess(req, res, newCookie): an async function; it rejects when
\* the inventory query rejects, and otherwise answers 200 with the data.
handleSuccess(args, b, rs) ==
  IF b = "returns" /\ Len(args) >= 2 /\ args[2] = "res"
    THEN [thrown |-> "no", res |-> SendResponse(rs, 200, "data")]
    ELSE [thrown |-> "async", res |-> rs]

\* The call fn(...args) with behaviour b: how it ended ("no" exception, a "sync"
\* throw, or an "async" rejection of the promise it returned) and the response after.
Invoke(fn, args, b, rs) ==
  CASE fn = "handleError" -> handleError(args, rs)
    [] fn = "handleSuccess" -> handleSuccess(args, b, rs)
    [] OTHER -> [thrown |-> CASE b = "returns" -> "no" [] b = "throws" -> "sync"
                                 [] OTHER -> "async",
                 res |-> rs]

\* One entry of invoked: the handler slot, what filled it, and how the call ended.
Invoked(h, by, thrown) == [h |-> h, by |-> by, thrown |-> thrown]

(***************************************************************************)
(* Requests                                                                *)
(***************************************************************************)
Headers ==
  {[present |-> FALSE, s |-> <<>>],
   [present |-> TRUE, s |-> <<>>],
   [present |-> TRUE, s |-> <<"B", "a", "s", "i", "c", " ", "c", "H", "c", "=">>],
   [present |-> TRUE, s |-> <<"B", "a", "s", "i", "c", " ", "c", "H", "c">>],
   [present |-> TRUE, s |-> <<"B", "a", "s", "i", "c", " ", "c", "H", "g", "=">>],
   [present |-> TRUE, s |-> <<"B", "a", "s", "i", "c", " ">>],
   [present |-> TRUE, s |-> <<"B", "e", "a", "r", "e", "r", " ", "c", "H", "c", "=">>]}

Cookies == {"", "c1", "k1"}

\* The requests: objects with any header and cookie, and one value that is not an
\* object.
Requests ==
  {[kind |-> "object", authorization |-> h, cookie |-> c] : h \in Headers, c \in Cookies}
    \cup {[kind |-> "string", authorization |-> [present |-> FALSE, s |-> <<>>], cookie |-> ""]}

CallbackSets ==
  {[onSuccess |-> "callback", h401 |-> a, h500 |-> b] :
      a \in {"none", "callback"}, b \in {"none", "callback"}}

\* The user_cookies table before the first request.
InitialTables ==
  {<<>>,
   <<[cookie_string |-> "c1", is_verified |-> TRUE]>>,
   <<[cookie_string |-> "c1", is_verified |-> FALSE]>>,
   <<[cookie_string |-> "c1", is_verified |-> FALSE],
     [cookie_string |-> "c1", is_verified |-> TRUE]>>}

DbOutcomes == {"ok", "error", "throws"}

Finished == pc \in {"idle", "returned", "rejected"}

\* The state every request starts from.
Fresh ==
  /\ authResult' = NoAuthResult
  /\ res' = NoResponse
  /\ status_code' = 0
  /\ log' = "none"
  /\ invoked' = <<>>

(***************************************************************************)
(* Actions of the HTTP side                                                *)
(***************************************************************************)
\* new ApiResponse(req, res, onSuccess, c) of class impl by a caller, then send().
NewApiResponse(impl, r, c) ==
  /\ Finished
  /\ req' = [entry |-> "direct", impl |-> impl, method |-> "GET", kind |-> r.kind,
             authorization |-> r.authorization, cookie |-> r.cookie]
  /\ cb' = c
  /\ pc' = "send"
  /\ Fresh
  /\ UNCHANGED <<table, invVars>>

\* data.js handler(req, res): 405 unless the method is GET, else an ApiResponse
\* with handleSuccess and { '401': handleError }, then send().
Handler(r, method) ==
  /\ Finished
  /\ r.kind = "object"
  /\ req' = [entry |-> "data", impl |-> "plain", method |-> method, kind |-> r.kind,
             authorization |-> r.authorization, cookie |-> r.cookie]
  /\ authResult' = NoAuthResult
  /\ status_code' = 0
  /\ log' = "none"
  /\ invoked' = <<>>
  /\ IF method # "GET"
       THEN /\ res' = SendResponse(NoResponse, 405, "Method Not Allowed")
            /\ cb' = NoCallbacks
            /\ pc' = "returned"
       ELSE /\ res' = NoResponse
            /\ cb' = [onSuccess |-> "handleSuccess", h401 |-> "handleError", h500 |-> "none"]
            /\ pc' = "send"
  /\ UNCHANGED <<table, invVars>>

\* The response after the Set-Cookie step both send() methods share: the header is
\* set when the request is verified and newCookie is truthy.
WithSetCookie(rs, a) ==
  IF ~a.threw /\ a.verified /\ a.newCookie # ""
    THEN [rs EXCEPT !.setCookie = a.newCookie]
    ELSE rs

\* api-response.js send(), first part: new Auth, await isVerified, Set-Cookie.  An
\* exception goes to the catch block.
PlainVerify(db) ==
  /\ pc = "send"
  /\ req.impl = "plain"
  /\ \E a \in {AuthRun(req, table, db)} :
        /\ Len(a.table) <= MaxRecords
        /\ authResult' = a.ret
        /\ table' = a.table
        /\ res' = WithSetCookie(res, a.ret)
        /\ pc' = IF a.ret.threw THEN "catch" ELSE "authed"
  /\ UNCHANGED <<req, cb, status_code, log, invoked, invVars>>

\* api-response.js send(), not verified: return handler(res, reason) for a custom
\* '401' handler, which is not awaited, so only its synchronous throw reaches the
\* catch block; else the default 401 response.
Plain401(b) ==
  IF cb.h401 # "none"
    THEN \E r \in {Invoke(cb.h401, <<"res", "reason">>, b, res)} :
            /\ invoked' = Append(invoked, Invoked("401", cb.h401, r.thrown))
            /\ res' = r.res
            /\ pc' = CASE r.thrown = "no" -> "returned"
                       [] r.thrown = "sync" -> "catch"
                       [] OTHER -> "rejected"
    ELSE /\ invoked' = Append(invoked, Invoked("401", "default", "no"))
         /\ res' = SendResponse(res, 401, authResult.reason)
         /\ pc' = "returned"

\* api-response.js send(), second part: return await onSuccess(req, res, newCookie)
\* when verified, else the 401 step.
PlainDispatch(b) ==
  /\ pc = "authed"
  /\ req.impl = "plain"
  /\ IF authResult.verified
       THEN \E r \in {Invoke(cb.onSuccess, <<"req", "res", "cookie">>, b, res)} :
               /\ invoked' = Append(invoked, Invoked("onSuccess", cb.onSuccess, r.thrown))
               /\ res' = r.res
               /\ pc' = IF r.thrown = "no" THEN "returned" ELSE "catch"
       ELSE Plain401(b)
  /\ UNCHANGED <<req, cb, authResult, status_code, log, table, invVars>>

\* api-response.js send(), catch block: return handler(res, error) for a custom
\* '500' handler, else the default 500 response.
PlainCatch(b) ==
  /\ pc = "catch"
  /\ req.impl = "plain"
  /\ IF cb.h500 # "none"
       THEN \E r \in {Invoke(cb.h500, <<"res", "error">>, b, res)} :
               /\ invoked' = Append(invoked, Invoked("500", cb.h500, r.thrown))
               /\ res' = r.res
               /\ pc' = IF r.thrown = "no" THEN "returned" ELSE "rejected"
       ELSE /\ invoked' = Append(invoked, Invoked("500", "default", "no"))
            /\ res' = SendResponse(res, 500, "error")
            /\ pc' = "returned"
  /\ UNCHANGED <<req, cb, authResult, status_code, log, table, invVars>>

\* The logging send(), first part: new Auth, await isVerified, Set-Cookie, and
\* #status_code 200, 401 or, in the catch block, 500.
LoggedVerify(db) ==
  /\ pc = "send"
  /\ req.impl = "logged"
  /\ \E a \in {AuthRun(req, table, db)} :
        /\ Len(a.table) <= MaxRecords
        /\ authResult' = a.ret
        /\ table' = a.table
        /\ res' = WithSetCookie(res, a.ret)
        /\ status_code' = IF a.ret.threw THEN 500 ELSE IF a.ret.verified THEN 200 ELSE 401
  /\ pc' = "log"
  /\ UNCHANGED <<req, cb, log, invoked, invVars>>

\* A variant of the log call that does not wait for the write.
LogStart_NoAwait ==
  /\ pc = "log"
  /\ log' = "pending"
  /\ pc' = "logged"
  /\ UNCHANGED <<req, cb, authResult, res, status_code, invoked, table, invVars>>

\* #logToSupabase is called: the fetch is issued and send() awaits it.
LogStart ==
  /\ pc = "log"
  /\ log' = "pending"
  /\ pc' = "logging"
  /\ UNCHANGED <<req, cb, authResult, res, status_code, invoked, table, invVars>>

\* The fetch settles: it resolved, or it rejected and #logToSupabase caught the
\* error.  Either way the awaited promise resolves and send() goes on.
LogSettle(ok) ==
  /\ pc = "logging"
  /\ log' = IF ok THEN "written" ELSE "failed"
  /\ pc' = "logged"
  /\ UNCHANGED <<req, cb, authResult, res, status_code, invoked, table, invVars>>

\* The logging send(), last part: the handler #status_code selects, awaited and
\* outside any try, so its exception rejects send().
LoggedDispatch(b) ==
  /\ pc = "logged"
  /\ LET h == CASE status_code = 200 -> "onSuccess"
                [] status_code = 401 -> "401"
                [] OTHER -> "500"
         fn == CASE h = "onSuccess" -> cb.onSuccess [] h = "401" -> cb.h401 [] OTHER -> cb.h500
         args == CASE h = "onSuccess" -> <<"req", "res">>
                   [] h = "401" -> <<"req", "res", "reason">>
                   [] OTHER -> <<"req", "res", "error">>
     IN IF fn # "none"
          THEN \E r \in {Invoke(fn, args, b, res)} :
                  /\ invoked' = Append(invoked, Invoked(h, fn, r.thrown))
                  /\ res' = r.res
                  /\ pc' = IF r.thrown = "no" THEN "returned" ELSE "rejected"
          ELSE /\ invoked' = Append(invoked, Invoked(h, "default", "no"))
               /\ res' = IF h = "401"
                           THEN SendResponse(res, 401, authResult.reason)
                           ELSE SendResponse(res, 500, "error")
               /\ pc' = "returned"
  /\ UNCHANGED <<req, cb, authResult, status_code, log, table, invVars>>

InitApi ==
  /\ items = <<>>
  /\ boxes = <<>>
  /\ container = "none"
  /\ itemList = <<>>
  /\ call = Call("init", 0, <<>>, "", Void)
  /\ ApiIdle
  /\ table \in InitialTables

NextApi ==
  \/ \E impl \in {"plain", "logged"}, r \in Requests, c \in CallbackSets :
       NewApiResponse(impl, r, c)
  \/ \E r \in Requests, method \in {"GET", "POST"} : Handler(r, method)
  \/ \E db \in DbOutcomes : PlainVerify(db)
  \/ \E b \in Behaviours : PlainDispatch(b)
  \/ \E b \in Behaviours : PlainCatch(b)
  \/ \E db \in DbOutcomes : LoggedVerify(db)
  \/ LogStart
  \/ \E ok \in BOOLEAN : LogSettle(ok)
  \/ \E b \in Behaviours : LoggedDispatch(b)

SpecApi == InitApi /\ [][NextApi]_vars

(***************************************************************************)
(* Properties                                                              *)
(***************************************************************************)
\* The members of a Set kept as a sequence.
Members(set) == {set[k] : k \in 1..Len(set)}

\* sub keeps the order of seq: it lists some of seq's elements, none twice, in the
\* order they have in seq.
IsSubSeqOf(sub, seq) ==
  \E pos \in [1..Len(sub) -> 1..Len(seq)] :
    /\ \A k \in 1..Len(sub) : sub[k] = seq[pos[k]]
    /\ \A j, k \in 1..Len(sub) : j < k => pos[j] < pos[k]

MinBoxError == "item must have at least one box"

\* C1: every Item that exists has at least one Box in its box set, whatever calls
\* (accepted or rejected) were made since its construction.
C1_ItemHasABox == \A i \in 1..Len(items) : Len(items[i].boxes) >= 1

\* C1 witness: a removal was just rejected on an Item holding its last Box.
C1_Witness ==
  /\ call.op \in {"removeBox"}
  /\ call.err = MinBoxError
  /\ Len(items[call.self].boxes) = 1

\* What C2 says of one removal of Box b, a member of Item i's set, made in this step.
C2_RemovalOf(i, b) ==
  /\ call'.err = MinBoxError <=> Len(items[i].boxes) = 1
  /\ call'.err = MinBoxError =>
       /\ items'[i].boxes = items[i].boxes
       /\ SetHas(items'[i].boxes, b)
  /\ call'.err # MinBoxError =>
       /\ call'.err = ""
       /\ Members(items'[i].boxes) = Members(items[i].boxes) \ {b}
       /\ Len(items'[i].boxes) = Len(items[i].boxes) - 1

\* C2: removing a Box that is in the Item's set, by removeBox or by the Box's own
\* remove, is rejected with the at-least-one-box error exactly when the set has size
\* 1; rejected, the set is unchanged; accepted, exactly that Box leaves the set.
C2_RemoveRejectedIffSole ==
  [][/\ \A i \in 1..Len(items), b \in 1..Len(boxes) :
          (call'.op = "removeBox" /\ call'.self = i /\ call'.args = <<BoxRef(b)>>
             /\ SetHas(items[i].boxes, b)) => C2_RemovalOf(i, b)
     /\ \A b \in 1..Len(boxes) :
          (call'.op = "Box.remove" /\ call'.self = b
             /\ SetHas(items[boxes[b].parentItem].boxes, b))
            => C2_RemovalOf(boxes[b].parentItem, b)]_vars

\* C2 witness: an Item that had two Boxes: one removal went through (that Box is
\* no longer in the set), and the removal of the remaining one was just rejected.
C2_Witness ==
  /\ call.op = "removeBox"
  /\ call.err = MinBoxError
  /\ call.args[1].t = "Box"
  /\ SetHas(items[call.self].boxes, call.args[1].n)
  /\ \E b \in 1..Len(boxes) :
       boxes[b].parentItem = call.self /\ ~SetHas(items[call.self].boxes, b)

\* A valid (qty, description) pair, and a raw descriptor whose scalar fields are
\* valid and whose boxes is a non-empty list of valid pairs.
IsPair(el) ==
  el.t = "array" /\ Len(el.a) = 2 /\ isPositiveInt(el.a[1]) /\ isNonEmptyString(el.a[2])

IsValidRaw(e) ==
  /\ e.t = "object"
  /\ isNonEmptyString(e.a[1]) /\ isNonEmptyString(e.a[2]) /\ isPositiveInt(e.a[3])
  /\ e.a[4].t = "array" /\ Len(e.a[4].a) > 0
  /\ \A k \in 1..Len(e.a[4].a) : IsPair(e.a[4].a[k])

\* C3: a Container constructor or addItems call given one raw descriptor with valid
\* scalar fields and a non-empty list of valid pairs returns, and has added a fresh
\* Item that owns exactly one Box per pair, each with that pair's qty and description.
C3_RawDescriptorBuildsItem ==
  (call.op \in {"new Container", "addItems"} /\ Len(call.args) = 1 /\ IsValidRaw(call.args[1]))
    => /\ call.err = ""
       /\ Len(items) >= 1
       /\ SetHas(itemList, Len(items))
       /\ LET it == items[Len(items)]
              pairs == call.args[1].a[4].a
          IN /\ Len(it.boxes) = Len(pairs)
             /\ \A k \in 1..Len(pairs) :
                  /\ boxes[it.boxes[k]].qty = pairs[k].a[1]
                  /\ boxes[it.boxes[k]].description = pairs[k].a[2]
                  /\ boxes[it.boxes[k]].parentItem = Len(items)

\* C4: a Container constructed from N valid raw descriptors shows, through
\* getContainerData("obj"), exactly N entries in input order whose collection,
\* item_name and item_id equal the input descriptors' fields exactly.
C4_RoundTripExact ==
  (call.op = "new Container" /\ \A k \in 1..Len(call.args) : IsValidRaw(call.args[k]))
    => /\ call.err = ""
       /\ LET r == getContainerData(items, boxes, itemList, Str(<<"o", "b", "j">>))
          IN /\ r.err = ""
             /\ r.ret.k = "obj"
             /\ Len(r.ret.v) = Len(call.args)
             /\ \A k \in 1..Len(call.args) :
                  LET d == getItemData(items, boxes, r.ret.v[k].n, Str(<<"o", "b", "j">>)).ret.v
                  IN /\ d.collection = call.args[k].a[1]
                     /\ d.item_name = call.args[k].a[2]
                     /\ d.item_id = call.args[k].a[3]

NoDuplicates(set) == \A j, k \in 1..Len(set) : j # k => set[j] # set[k]

\* seq is the start of longer.
IsPrefixOf(seq, longer) ==
  Len(seq) <= Len(longer) /\ \A k \in 1..Len(seq) : seq[k] = longer[k]

\* C5: the Container's items form a set by identity: no Item is in it twice; an
\* addItems call given Items adds exactly the ones that were absent, after the ones
\* already there, so adding a present Item changes nothing, and an absent Item is
\* added whether or not an Item with the same item_id is present.
C5_SetByIdentity ==
  [][/\ NoDuplicates(itemList')
     /\ (call'.op = "addItems" /\ \A k \in 1..Len(call'.args) : call'.args[k].t = "Item")
          => /\ call'.err = ""
             /\ Members(itemList') =
                  Members(itemList) \cup {call'.args[k].n : k \in 1..Len(call'.args)}
             /\ IsPrefixOf(itemList, itemList')
             /\ (\A k \in 1..Len(call'.args) : SetHas(itemList, call'.args[k].n))
                  => itemList' = itemList]_vars

\* C5 witness: addItems(x, x) has returned and the Container holds x once, beside a
\* distinct Item with the same collection, item_name and item_id.
C5_Witness ==
  /\ call.op = "addItems"
  /\ call.err = ""
  /\ Len(call.args) = 2
  /\ call.args[1].t = "Item"
  /\ call.args[2] = call.args[1]
  /\ Len(itemList) = 2
  /\ items[itemList[1]].item_id = items[itemList[2]].item_id
  /\ items[itemList[1]].collection = items[itemList[2]].collection
  /\ items[itemList[1]].item_name = items[itemList[2]].item_name

\* C6: deleteItem(x) throws and leaves the item set as it is whenever x is not an
\* Item now in the Container; when x is in it, exactly x leaves and the others stay
\* in their order.
C6_DeleteItem ==
  [][call'.op = "deleteItem" =>
       LET x == call'.args[1]
       IN IF x.t = "Item" /\ SetHas(itemList, x.n)
            THEN /\ call'.err = ""
                 /\ Members(itemList') = Members(itemList) \ {x.n}
                 /\ Len(itemList') = Len(itemList) - 1
                 /\ IsSubSeqOf(itemList', itemList)
            ELSE /\ call'.err = "Container.deleteItem"
                 /\ itemList' = itemList]_vars

\* C6 witness: deleteItem was just rejected for an Item that is not in the
\* Container while a distinct Item with the same field values is in it.
C6_Witness ==
  /\ call.op = "deleteItem"
  /\ call.err = "Container.deleteItem"
  /\ call.args[1].t = "Item"
  /\ ~SetHas(itemList, call.args[1].n)
  /\ \E k \in 1..Len(itemList) :
       /\ items[itemList[k]].item_id = items[call.args[1].n].item_id
       /\ items[itemList[k]].collection = items[call.args[1].n].collection
       /\ items[itemList[k]].item_name = items[call.args[1].n].item_name

\* C7: removeBox(box) on an Item throws the invalid-argument error and leaves every
\* box set unchanged whenever box is not a Box now in that Item's set (not a Box,
\* another Item's Box, a Box already removed), whatever the size of the set; so does
\* remove() on a Box that is not in its parent's set.
C7_RemoveForeignBox ==
  [][/\ \A i \in 1..Len(items) :
          (call'.op = "removeBox" /\ call'.self = i
             /\ ~(call'.args[1].t = "Box" /\ SetHas(items[i].boxes, call'.args[1].n)))
            => call'.err = "item.removeBox" /\ items' = items
     /\ \A b \in 1..Len(boxes) :
          (call'.op = "Box.remove" /\ call'.self = b
             /\ ~SetHas(items[boxes[b].parentItem].boxes, b))
            => call'.err = "item.removeBox" /\ items' = items]_vars

\* C7 witness: an Item holding a single Box has just rejected the removal of a Box
\* owned by another Item.
C7_Witness ==
  /\ call.op = "removeBox"
  /\ call.err = "item.removeBox"
  /\ call.args[1].t = "Box"
  /\ boxes[call.args[1].n].parentItem # call.self
  /\ Len(items[call.self].boxes) = 1

\* The names of the three views, and the upper-case form of their letters.
ViewNames == {<<"o", "b", "j">>, <<"j", "s", "o", "n">>, <<"t", "a", "b", "l", "e">>}

UpperOf(ch) ==
  CASE ch = "o" -> "O" [] ch = "b" -> "B" [] ch = "j" -> "J"
    [] ch = "s" -> "S" [] ch = "n" -> "N" [] ch = "t" -> "T"
    [] ch = "a" -> "A" [] ch = "l" -> "L" [] ch = "e" -> "E"

\* cs spells name, in any letter case.
Spells(cs, name) ==
  Len(cs) = Len(name) /\ \A k \in 1..Len(name) : cs[k] \in {name[k], UpperOf(name[k])}

\* f is one of "obj", "json", "table" compared case-insensitively.
Recognised(f) == f.t = "string" /\ \E name \in ViewNames : Spells(f.s, name)

\* The kind of view a recognised format names.
ViewKind(f) ==
  IF Spells(f.s, <<"o", "b", "j">>) THEN "obj"
  ELSE IF Spells(f.s, <<"j", "s", "o", "n">>) THEN "json" ELSE "table"

\* The view of that kind, of the Item or of the Container the last call was made on.
ViewOfCall(kind) ==
  IF call.op = "getItemData"
    THEN CASE kind = "obj" -> ItemDataAsOBJ(items, boxes, call.self)
           [] kind = "json" -> ItemDataAsJson(items, boxes, call.self)
           [] kind = "table" -> ItemDataAsTable(items, boxes, call.self)
    ELSE CASE kind = "obj" -> ContainerDataAsObj(itemList)
           [] kind = "json" -> ContainerDataAsJson(items, boxes, itemList)
           [] kind = "table" -> ContainerDataAsTable(items, boxes, itemList)

IsViewCall == call.op \in {"getItemData", "getContainerData"}

\* C8 as stated: getItemData and getContainerData return the view a recognised
\* format names, and for every other format argument return null without throwing.
C8_UnrecognisedIsNull ==
  IsViewCall =>
    LET f == call.args[1]
    IN /\ call.err = ""
       /\ IF Recognised(f) THEN call.ret.k = ViewKind(f) ELSE call.ret = Null

\* C8 amended: a recognised format (any letter case) returns its view; any other
\* string with a non-blank character returns null without throwing; a format that
\* is not a string, or is empty or all blanks, throws the invalid-argument error,
\* except that getItemData without a format returns the "obj" view.
C8_FormatDispatch ==
  IsViewCall =>
    LET f == call.args[1]
    IN IF Recognised(f)
         THEN /\ call.err = ""
              /\ call.ret.k = ViewKind(f)
              /\ call.ret.v = ViewOfCall(ViewKind(f))
       ELSE IF f.t = "string" /\ \E k \in 1..Len(f.s) : f.s[k] # " "
         THEN call.err = "" /\ call.ret = Null
       ELSE IF f.t = "undefined" /\ call.op = "getItemData"
         THEN call.err = "" /\ call.ret.k = "obj" /\ call.ret.v = ViewOfCall("obj")
       ELSE call.err \in {"item.getItemData", "Container.getContainerData"}
            /\ call.ret = Void

\* C8 witness: getContainerData with an unrecognised name has returned null on a
\* Container that holds Items.
C8_Witness ==
  /\ IsViewCall
  /\ call.err = ""
  /\ call.args[1] = Str(<<"x">>)
  /\ call.ret = Null
  /\ call.op = "getContainerData"
  /\ Len(itemList) > 0

\* C9: getItemsById(id) with a positive integer id returns exactly the contained
\* Items whose item_id is id, each once, in the Container's order, and changes
\* nothing; with any other id it throws the invalid-argument error.
C9_GetItemsById ==
  [][call'.op = "getItemsById" =>
       LET id == call'.args[1]
       IN /\ UNCHANGED <<items, boxes, container, itemList>>
          /\ IF id.t = "number" /\ ~id.h /\ id.n >= 1
               THEN /\ call'.err = ""
                    /\ call'.ret.k = "items"
                    /\ \A k \in 1..Len(call'.ret.v) : call'.ret.v[k].t = "Item"
                    /\ {call'.ret.v[k].n : k \in 1..Len(call'.ret.v)}
                         = {i \in Members(itemList) : items[i].item_id = id}
                    /\ IsSubSeqOf([k \in 1..Len(call'.ret.v) |-> call'.ret.v[k].n], itemList)
               ELSE call'.err = "Container.getItemsById"]_vars

\* C9 witness: getItemsById has returned two distinct Items that share the id.
C9_Witness ==
  /\ call.op = "getItemsById"
  /\ call.err = ""
  /\ Len(call.ret.v) = 2
  /\ call.ret.v[1] # call.ret.v[2]

\* The number of Boxes in the sets of the first n Items of the Container.
RECURSIVE BoxCountUpTo(_)
BoxCountUpTo(n) ==
  IF n = 0 THEN 0 ELSE BoxCountUpTo(n - 1) + Len(items[itemList[n]].boxes)

\* Row r is the record of Item i's k-th Box.
IsRowOf(r, i, k) ==
  /\ r.collection = items[i].collection
  /\ r.item_name = items[i].item_name
  /\ r.item_id = items[i].item_id
  /\ r.box_qty = boxes[items[i].boxes[k]].qty
  /\ r.box_description = boxes[items[i].boxes[k]].description

\* C10: getItemData("table") returns one record per Box of the Item, in the set's
\* order, each with the Item's scalar fields and that Box's qty and description;
\* getContainerData("table") is the Items' tables one after the other, so it has as
\* many rows as the contained Items have Boxes.
C10_TableRows ==
  /\ (call.op = "getItemData" /\ call.err = "" /\ call.ret.k = "table")
       => /\ Len(call.ret.v) = Len(items[call.self].boxes)
          /\ \A k \in 1..Len(call.ret.v) : IsRowOf(call.ret.v[k], call.self, k)
  /\ (call.op = "getContainerData" /\ call.err = "" /\ call.ret.k = "table")
       => /\ Len(call.ret.v) = BoxCountUpTo(Len(itemList))
          /\ \A n \in 1..Len(itemList) :
               \A k \in 1..Len(items[itemList[n]].boxes) :
                 IsRowOf(call.ret.v[BoxCountUpTo(n - 1) + k], itemList[n], k)

\* C10 witness: the table of a Container with two Items has been returned, with a
\* row for each of their Boxes.
C10_Witness ==
  /\ call.op = "getContainerData"
  /\ call.err = ""
  /\ call.ret.k = "table"
  /\ Len(itemList) = 2
  /\ Len(call.ret.v) = 2

\* A positive integer, and a string with a character that is not a blank.
IsPositiveInteger(v) == v.t = "number" /\ ~v.h /\ v.n >= 1

IsNonBlankString(v) == v.t = "string" /\ \E k \in 1..Len(v.s) : v.s[k] # " "

\* C11: every Box that exists has a positive-integer qty and a non-empty-string
\* description; new Box with an invalid qty, description or parent throws and makes
\* no Box; a qty or description setter given an invalid value throws the
\* invalid-argument error and leaves every Box as it was.
C11_BoxFieldsValid ==
  [][/\ \A b \in 1..Len(boxes') :
          IsPositiveInteger(boxes'[b].qty) /\ IsNonBlankString(boxes'[b].description)
     /\ (call'.op = "set qty" /\ ~IsPositiveInteger(call'.args[1]))
          => call'.err = "box.qty" /\ boxes' = boxes
     /\ (call'.op = "set description" /\ ~IsNonBlankString(call'.args[1]))
          => call'.err = "box.description" /\ boxes' = boxes
     /\ (call'.op = "new Box"
           /\ ~(IsPositiveInteger(call'.args[1]) /\ IsNonBlankString(call'.args[2])
                  /\ call'.args[3].t = "Item"))
          => call'.err \in {"box.qty", "box.description", "box.parentItem"} /\ boxes' = boxes]_vars

\* C11 witness: the qty setter has just rejected zero on a Box that keeps its qty.
C11_Witness ==
  /\ call.op = "set qty"
  /\ call.args[1] = Num(0)
  /\ call.err = "box.qty"
  /\ IsPositiveInteger(boxes[call.self].qty)

\* The errors the classes throw themselves ("invalid argument for ..."), as opposed
\* to the TypeError the runtime raises on reading an index of undefined.
ValidationErrors ==
  {"boxes", "box.qty", "box.description", "box.parentItem",
   "collection", "item_name", "item_id"}

IsGoodDescriptor(el) ==
  el.t = "array" /\ Len(el.a) >= 2 /\ IsPositiveInteger(el.a[1]) /\ IsNonBlankString(el.a[2])

\* The box descriptors of a recorded new Item call: its arguments after the third.
DescriptorsOf(c) == SubSeq(c.args, 4, Len(c.args))

IsBadDescriptorList(bxs) == bxs = <<>> \/ \E k \in 1..Len(bxs) : ~IsGoodDescriptor(bxs[k])

\* A construction that threw left no entity: no Item, Box or Container came to be.
NothingBuilt ==
  /\ items' = items /\ boxes' = boxes
  /\ container' = container /\ itemList' = itemList
  /\ call'.self = 0

\* C12: new Item with an empty descriptor list, or with a list holding a
\* malformed descriptor, throws one of the classes' validation errors, and a
\* constructor (Box, Item, Container) that throws leaves no entity behind.
C12_FailsWithValidationError ==
  [][/\ (call'.op = "new Item" /\ IsBadDescriptorList(DescriptorsOf(call')))
          => call'.err \in ValidationErrors
     /\ (call'.op \in {"new Item", "new Box", "new Container"} /\ call'.err # "")
          => NothingBuilt]_vars

\* C13: every Box with parent Item i is made by i itself, in i's construction or
\* i.addBoxes, and so is in i's box set when it comes into existence (no operation
\* puts an existing Box into a set, so a Box is or was a member exactly when it was
\* one at its creation): nothing makes a Box bound to i that never belonged to i.
C13_BoxMadeByItsItem ==
  [][\A b \in (Len(boxes) + 1)..Len(boxes') :
        SetHas(items'[boxes'[b].parentItem].boxes, b)]_vars

\* C17: exclusive ownership.  Every Box in Item i's box set has parent i, no Box is
\* in the box sets of two different Items, and no step changes the parent of a Box
\* that exists.
C17_ExclusiveOwnership ==
  [][/\ \A i \in 1..Len(items') : \A k \in 1..Len(items'[i].boxes) :
          boxes'[items'[i].boxes[k]].parentItem = i
     /\ \A i, j \in 1..Len(items') :
          i # j => Members(items'[i].boxes) \cap Members(items'[j].boxes) = {}
     /\ \A b \in 1..Len(boxes) : boxes'[b].parentItem = boxes[b].parentItem]_vars

\* C17 witness: a second Item has just been constructed with a Box of its own while
\* the first Item holds its own.
C17_Witness ==
  /\ call.op = "new Item" /\ call.err = "" /\ call.self = 2
  /\ Len(items) = 2
  /\ items[1].boxes # <<>> /\ items[2].boxes # <<>>
  /\ boxes[items[2].boxes[1]].parentItem = 2

\* The characters of a view kind's name.
NameOfKind(kind) ==
  CASE kind = "obj" -> <<"o", "b", "j">>
    [] kind = "json" -> <<"j", "s", "o", "n">>
    [] kind = "table" -> <<"t", "a", "b", "l", "e">>

\* What getItemData returns for Item i, asked by the view's lower-case name.
ViewOf(i, name) == getItemData(items, boxes, i, Str(name)).ret.v

\* The three views of Item i agree with each other and with the Item's live state.
ViewsAgree(i) ==
  LET o == ViewOf(i, <<"o", "b", "j">>)
      j == ViewOf(i, <<"j", "s", "o", "n">>)
      t == ViewOf(i, <<"t", "a", "b", "l", "e">>)
      n == Len(items[i].boxes)
  IN /\ Len(o.boxes) = n /\ Len(j.boxes) = n /\ Len(t) = n /\ n >= 1
     /\ o.collection = items[i].collection /\ j.collection = o.collection
     /\ o.item_name = items[i].item_name /\ j.item_name = o.item_name
     /\ o.item_id = items[i].item_id /\ j.item_id = o.item_id
     /\ \A k \in 1..n :
          /\ o.boxes[k] = BoxRef(items[i].boxes[k])
          /\ t[k].collection = o.collection
          /\ t[k].item_name = o.item_name
          /\ t[k].item_id = o.item_id
          /\ j.boxes[k].qty = boxes[o.boxes[k].n].qty
          /\ t[k].box_qty = j.boxes[k].qty
          /\ j.boxes[k].description = boxes[o.boxes[k].n].description
          /\ t[k].box_description = j.boxes[k].description

\* C18: in every state the "obj", "json" and "table" views of every Item carry the
\* same collection, item_name and item_id and list the Item's current boxes in the
\* same order with their current qty and description, so whatever addBoxes, removeBox
\* or a Box setter changed shows in all three; and a view a getItemData call returned
\* is the view of the state it was called in.
C18_ViewsAgree ==
  /\ \A i \in 1..Len(items) : ViewsAgree(i)
  /\ (call.op = "getItemData" /\ call.err = "" /\ call.ret.k \in {"obj", "json", "table"})
       => call.ret.v = ViewOf(call.self, NameOfKind(call.ret.k))

\* C18 witness: the qty setter has just changed the second Box of a two-Box Item from
\* 1 to 2, and the json and table views list 2 for it.
C18_Witness ==
  /\ call.op = "set qty" /\ call.err = "" /\ call.args[1] = Num(2)
  /\ \E i \in 1..Len(items) :
        /\ Len(items[i].boxes) = 2
        /\ items[i].boxes[2] = call.self
        /\ boxes[items[i].boxes[1]].qty = Num(1)
        /\ ViewOf(i, <<"j", "s", "o", "n">>).boxes[2].qty = Num(2)
        /\ ViewOf(i, <<"t", "a", "b", "l", "e">>)[2].box_qty = Num(2)

\* send() has settled: its promise resolved or rejected.
Settled == pc \in {"returned", "rejected"}

\* C14: every GET request to the data endpoint for which Auth.isVerified returns
\* verified = false is answered 401 with body {error: 'Unauthorized'} by the custom
\* 401 callback handleError, never 200 or 500.
C14_UnverifiedGets401 ==
  (req.entry = "data" /\ req.method = "GET" /\ Settled
     /\ ~authResult.threw /\ ~authResult.verified)
    => /\ res.status = 401
       /\ res.body = "Unauthorized"
       /\ \E k \in 1..Len(invoked) : invoked[k].by = "handleError" /\ invoked[k].thrown = "no"

\* send() is past its authentication step for the request being served.
PastVerify == pc \notin {"idle", "send"} /\ cb.onSuccess # "none"

\* Auth.isVerified has returned for the request being served.
Authenticated == PastVerify /\ ~authResult.threw

\* The Authorization headers that are 'Basic ' followed by a base64 text of the
\* expected password "pw" ("cHc=", with or without its padding).
PasswordHeaders ==
  {<<"B", "a", "s", "i", "c", " ", "c", "H", "c", "=">>,
   <<"B", "a", "s", "i", "c", " ", "c", "H", "c">>}

\* The session cookie matches a user_cookies row that is verified.
CookieHasVerifiedRow ==
  \E k \in 1..Len(table) :
     table[k].cookie_string = req.cookie /\ table[k].is_verified

\* C15 as stated: isVerified returns verified = true only if (a) an Authorization
\* header is present, starts with 'Basic ' and decodes to the expected password, or
\* (b) no Authorization header is present and the session cookie matches a row
\* whose is_verified is true; the cookie is looked up only when no header is
\* present; a database error or exception in the lookup gives verified = false.
C15_VerifiedOnlyIf ==
  Authenticated =>
    /\ authResult.verified =>
         \/ req.authorization.present /\ req.authorization.s \in PasswordHeaders
         \/ ~req.authorization.present /\ CookieHasVerifiedRow
    /\ authResult.query = "select" => ~req.authorization.present
    /\ (authResult.query = "select" /\ authResult.db # "ok") => ~authResult.verified

\* C15 amended: the same with "no header present" read as "no header, or an empty
\* one": an empty Authorization header counts as none.
C15_VerifiedOnlyIfNonEmpty ==
  Authenticated =>
    LET noHeader == ~req.authorization.present \/ req.authorization.s = <<>>
    IN /\ authResult.verified =>
            \/ ~noHeader /\ req.authorization.s \in PasswordHeaders
            \/ noHeader /\ CookieHasVerifiedRow
       /\ authResult.query = "select" => noHeader
       /\ (authResult.query = "select" /\ authResult.db # "ok") => ~authResult.verified

\* C15 witness: a request without Authorization header has been verified by its
\* session cookie.
C15_Witness ==
  /\ Authenticated
  /\ authResult.verified
  /\ ~req.authorization.present
  /\ authResult.query = "select"
  /\ CookieHasVerifiedRow

\* An exception was raised while verifying authentication or by the onSuccess or
\* the 401 callback, thrown or as a rejected promise.
ExceptionRaised ==
  \/ authResult.threw
  \/ \E k \in 1..Len(invoked) :
        invoked[k].h \in {"onSuccess", "401"} /\ invoked[k].thrown # "no"

\* C16: in send() of src/lib/api-response.js, whenever an exception is raised while
\* verifying authentication or while running the onSuccess or the 401 callback, by a
\* synchronous throw or by a rejected promise, the 500 handler is invoked: the custom
\* '500' callback when one was supplied, else the default response with status 500.
C16_ExceptionReaches500 ==
  (req.impl = "plain" /\ Settled /\ ExceptionRaised)
    => \E k \in 1..Len(invoked) :
          /\ invoked[k].h = "500"
          /\ IF cb.h500 # "none" THEN invoked[k].by = cb.h500
             ELSE invoked[k].by = "default" /\ res.status = 500

\* The request carries the password header and isVerified's insert went through:
\* user_cookies holds the new verified row.
CookieCreated ==
  /\ req.authorization.s \in PasswordHeaders
  /\ authResult.query = "insert" /\ authResult.db = "ok"
  /\ table # <<>>
  /\ table[Len(table)].is_verified

\* C19: send() sets Set-Cookie exactly when authentication succeeded through the
\* Authorization header password and the new cookie row was created, and then to that
\* row's cookie_string; when the creation fails the request is still verified and
\* gets no Set-Cookie; an unverified request, and one verified by its session
\* cookie, never get Set-Cookie.
C19_SetCookieIffCreated ==
  PastVerify =>
    /\ res.setCookie # "" <=> CookieCreated
    /\ CookieCreated => res.setCookie = table[Len(table)].cookie_string
    /\ (req.authorization.s \in PasswordHeaders /\ authResult.db # "ok")
         => authResult.verified /\ res.setCookie = ""
    /\ (authResult.threw \/ ~authResult.verified \/ authResult.query = "select")
         => res.setCookie = ""

\* C19 witness: a request with the password header has been verified, its cookie row
\* was created and Set-Cookie carries the new cookie_string.
C19_Witness ==
  /\ PastVerify
  /\ CookieCreated
  /\ res.setCookie = "k1"
  /\ authResult.newCookie = "k1"

\* The handler the authentication outcome selects.
HandlerFor(a) ==
  IF a.threw THEN "500" ELSE IF a.verified THEN "onSuccess" ELSE "401"

C21_FailedMutationKeepsSet ==
  [][/\ (call'.op = "addBoxes" /\ call'.err # "")
          => items'[call'.self].boxes = items[call'.self].boxes
     /\ (call'.op = "addItems" /\ call'.err # "")
          => itemList' = itemList]_vars

====
